---- MODULE Spec2Model ----
(***************************************************************************)
(* A model of the inclusive kinematic fit library:                         *)
(*   inclusivekinematicfit/chi2functions.py  cost function and minimizer   *)
(*   inclusivekinematicfit/funclib.py        chi square and constraints    *)
(*   inclusivekinematicfit/covariance.py     packed symmetric matrices     *)
(*                                                                         *)
(* One-dimensional numpy arrays are functions over 0..n-1, so that an      *)
(* index of the model is the index of the source.  Floating point numbers  *)
(* are modelled by exact integers and rationals (num/den, den > 0).        *)
(* Every modelled call returns a record: exc is the exception it raised    *)
(* (NoException when it returned), ret its return value.                   *)
(***************************************************************************)
EXTENDS Integers, Sequences, FiniteSets, TLC

VARIABLES
    cf,          \* the cost function object under test, NoObject before construction
    op,          \* the name of the last call
    arg,         \* the arguments of the last call
    raised,      \* the exception the last call raised, NoException if it returned
    returned,    \* the value the last call returned, None if it raised
    evaluated,   \* the properties of cf the last call read, in order
    solver_log,  \* the invocations of scipy.optimize.minimize made by the last call
    linalg_error_base,  \* the class the installed numpy derives LinAlgError from
    _kinfit_global_settings,  \* the dict of settings.py, shared by the process
    warnings,    \* the warnings the last call issued with warnings.warn
    settings_log \* the calls of set_setting and get_setting made since import

settings_vars == <<_kinfit_global_settings, warnings, settings_log>>

vars == <<cf, op, arg, raised, returned, evaluated, solver_log, linalg_error_base,
          _kinfit_global_settings, warnings, settings_log>>

----------------------------------------------------------------------------
(* Python values *)

None == [cls |-> "NoneType"]
NoObject == None
NoException == [type |-> "none", msg |-> ""]
ValueError(msg) == [type |-> "ValueError", msg |-> msg]
LinAlgError(msg) == [type |-> "LinAlgError", msg |-> msg]
(* numpy.linalg.LinAlgError derives from Exception in the older numpy releases
   and from ValueError in the newer ones; the library pins neither *)
LinAlgErrorBases == {"Exception", "ValueError"}
(* isinstance(exc, cls), as an except clause or pytest.raises tests it *)
IsInstance(exc, cls) ==
    \/ exc.type = cls
    \/ exc.type = "LinAlgError" /\ linalg_error_base = cls
Raise(e) == [exc |-> e, ret |-> None]
Return(v) == [exc |-> NoException, ret |-> v]

(* arrays: a sequence literal as a 0-based array, size, slice, concatenation *)
Arr(s) == [i \in 0..(Len(s) - 1) |-> s[i + 1]]
Mat(rows) == [i \in 0..(Len(rows) - 1) |-> Arr(rows[i + 1])]
Size(a) == Cardinality(DOMAIN a)
Min(a, b) == IF a < b THEN a ELSE b
(* a[lo:hi], which ends where a ends *)
Slice(a, lo, hi) == [i \in 0..(Min(hi, Size(a)) - lo - 1) |-> a[lo + i]]
Concat(a, b) ==
    [i \in 0..(Size(a) + Size(b) - 1) |-> IF i < Size(a) THEN a[i] ELSE b[i - Size(a)]]

RECURSIVE SumTo(_, _)
SumTo(f, n) == IF n = 0 THEN 0 ELSE f[n - 1] + SumTo(f, n - 1)
(* np.sum of a 1-d array *)
Sum(a) == SumTo(a, Size(a))

----------------------------------------------------------------------------
(* np.linalg.inv.  The inverse of an invertible matrix is given exactly, as the
   adjugate over the determinant.  numpy decides singularity by LAPACK's LU
   factorisation with partial pivoting in doubles (dgetrf) and raises only
   when a pivot is exactly zero. *)

MinorOf(m, r, c) ==
    [i \in 0..(Size(m) - 2) |->
        [j \in 0..(Size(m) - 2) |->
            m[IF i < r THEN i ELSE i + 1][IF j < c THEN j ELSE j + 1]]]

RECURSIVE Det(_)
Det(m) ==
    IF Size(m) = 0 THEN 1
    ELSE IF Size(m) = 1 THEN m[0][0]
    ELSE Sum([j \in 0..(Size(m) - 1) |->
                (IF j % 2 = 0 THEN 1 ELSE -1) * m[0][j] * Det(MinorOf(m, 0, j))])

Cofactor(m, i, j) ==
    (IF (i + j) % 2 = 0 THEN 1 ELSE -1) * Det(MinorOf(m, i, j))

(* rationals num/den, den > 0, as the elimination computes them *)
Abs(v) == IF v < 0 THEN 0 - v ELSE v
RECURSIVE GCD(_, _)
GCD(a, b) == IF b = 0 THEN a ELSE GCD(b, a % b)
Reduced(n, d) == LET g == GCD(Abs(n), d) IN [num |-> n \div g, den |-> d \div g]
RatSub(a, b) == Reduced(a.num * b.den - b.num * a.den, a.den * b.den)
RatMul(a, b) == Reduced(a.num * b.num, a.den * b.den)
RatDiv(a, b) == Reduced((IF b.num < 0 THEN -1 ELSE 1) * a.num * b.den, a.den * Abs(b.num))
AbsGreater(a, b) == Abs(a.num) * b.den > Abs(b.num) * a.den
(* the doubles whose reciprocal is a double: plus or minus a power of two *)
IsPowerOfTwo(a) ==
    \E e \in 0..16 : Abs(a.num) = a.den * 2^e \/ Abs(a.num) * 2^e = a.den

(* dgetrf from column k on.  The pivot of a column is its first entry of
   largest magnitude on or below the diagonal; the rows below are scaled by the
   reciprocal of the pivot and subtracted.  "zero_pivot": a pivot is exactly
   zero, every value before it having been computed without rounding;
   "exact": no pivot is zero and nothing was rounded; "rounded": a multiplier
   is not a double (its pivot is no power of two), from where on the values
   are what the rounding of the installed LAPACK makes them. *)
RECURSIVE dgetrf(_, _)
dgetrf(a, k) ==
    LET rows == k..(Size(a) - 1)
        p == CHOOSE i \in rows :
                 \A j \in rows : (~AbsGreater(a[j][k], a[i][k]))
                                     /\ (j < i => AbsGreater(a[i][k], a[j][k]))
        swapped == [i \in DOMAIN a |-> IF i = k THEN a[p] ELSE IF i = p THEN a[k] ELSE a[i]]
        pivot == swapped[k][k]
        eliminated ==
            [i \in DOMAIN a |->
                IF i <= k THEN swapped[i]
                ELSE [j \in DOMAIN a |->
                         RatSub(swapped[i][j],
                                RatMul(RatDiv(swapped[i][k], pivot), swapped[k][j]))]]
    IN  IF k = Size(a) THEN "exact"
        ELSE IF pivot.num = 0 THEN "zero_pivot"
        ELSE IF ~IsPowerOfTwo(pivot) /\ \E i \in (k + 1)..(Size(a) - 1) : swapped[i][k].num # 0
        THEN "rounded"
        ELSE dgetrf(eliminated, k + 1)

(* an inverse whose entries rounding determines: den = 0 marks a float of no
   exact value, and every sum and product with it is one too *)
RoundedInverse(m) == [num |-> [i \in DOMAIN m |-> [j \in DOMAIN m |-> 0]], den |-> 0]

(* The inverse as num/den with den > 0.  On a singular matrix: LinAlgError when
   the elimination meets an exactly zero pivot; when its values are rounded,
   the installed LAPACK either still meets a zero pivot (zero_pivot_after_rounding)
   or returns a matrix of huge entries. *)
linalg_inv(m, zero_pivot_after_rounding) ==
    LET det == Det(m)
        sgn == IF det < 0 THEN -1 ELSE 1
        lu == dgetrf([i \in DOMAIN m |-> [j \in DOMAIN m |-> [num |-> m[i][j], den |-> 1]]], 0)
    IN  IF det # 0
        THEN Return([num |-> [i \in DOMAIN m |-> [j \in DOMAIN m |-> sgn * Cofactor(m, j, i)]],
                     den |-> sgn * det])
        ELSE IF lu = "zero_pivot" \/ zero_pivot_after_rounding
        THEN Raise(LinAlgError("Singular matrix"))
        ELSE Return(RoundedInverse(m))

----------------------------------------------------------------------------
(* funclib.py.  np.sqrt of a negative number is nan, which no comparison
   equals: a float that may be nan is <<v>> for the number v and <<>> for nan.
   The model's inputs keep the non-negative radicands perfect squares. *)

nan == <<>>
Num(v) == <<v>>
Sq(v) == v * v
np_sqrt(v) == IF v < 0 THEN nan ELSE Num(CHOOSE r \in 0..v : r * r = v)
FSub(a, b) == IF a = nan \/ b = nan THEN nan ELSE Num(a[1] - b[1])
(* x[lo:hi] ** 2 summed *)
SumSq(x, lo, hi) == Sum([i \in 0..(hi - lo - 1) |-> Sq(x[lo + i])])

_x_mom_function(x, beam_momentum) == x[0] + x[4] + x[8] + x[11] - beam_momentum[0]
(* a y sum that reads the neutrino's z entry *)
_y_mom_function_index_slip(x, beam_momentum) == x[1] + x[5] + x[9] + x[13] - beam_momentum[1]
_y_mom_function(x, beam_momentum) == x[1] + x[5] + x[9] + x[12] - beam_momentum[1]
_z_mom_function(x, beam_momentum) == x[2] + x[6] + x[10] + x[13] - beam_momentum[2]

(* the radicands of the two energies are sums of squares, never negative *)
_lepton_energy(x, lepton_mass) == np_sqrt(SumSq(x, 8, 11) + Sq(lepton_mass))[1]
_neutrino_energy(x) == np_sqrt(SumSq(x, 11, Size(x)))[1]

_E_function(x, beam_momentum, lepton_mass) ==
    x[3] + x[7] + _lepton_energy(x, lepton_mass) + _neutrino_energy(x) - beam_momentum[3]

_tag_mass_sq(x) == Sq(x[3]) - SumSq(x, 0, 3)

_sig_x_mom(x) == x[4] + x[8] + x[11]
_sig_y_mom(x) == x[5] + x[9] + x[12]
_sig_z_mom(x) == x[6] + x[10] + x[13]

_sig_mass_sq(x, lepton_mass) ==
    Sq(x[7] + _lepton_energy(x, lepton_mass) + _neutrino_energy(x))
        - Sq(_sig_x_mom(x)) - Sq(_sig_y_mom(x)) - Sq(_sig_z_mom(x))

_eq_mass_function(x, lepton_mass) ==
    FSub(np_sqrt(_tag_mass_sq(x)), np_sqrt(_sig_mass_sq(x, lepton_mass)))

_x_mass_function(x) == Sq(x[7]) - SumSq(x, 4, 7)

(* rationals num/den (den > 0; den = 0 for a float of no exact value), and
   v @ m, a @ b *)
RatAdd(a, b) == [num |-> a.num * b.den + b.num * a.den, den |-> a.den * b.den]
VecMat(v, m) == [j \in DOMAIN m |-> Sum([i \in DOMAIN v |-> v[i] * m[i][j]])]
Dot(a, b) == Sum([i \in DOMAIN a |-> a[i] * b[i]])
(* a - b of two 1-d arrays: entry by entry, an array of one entry being
   stretched to the other's size; any other two sizes do not broadcast *)
VecSub(a, b) ==
    IF Size(a) = Size(b) THEN Return([i \in DOMAIN a |-> a[i] - b[i]])
    ELSE IF Size(b) = 1 THEN Return([i \in DOMAIN a |-> a[i] - b[0]])
    ELSE IF Size(a) = 1 THEN Return([i \in DOMAIN b |-> a[0] - b[i]])
    ELSE Raise(ValueError("operands could not be broadcast together"))
(* residuals @ icov @ residuals of the residuals r.ret, or what raised before *)
QuadForm(r, icov) ==
    IF r.exc # NoException THEN r
    ELSE IF Size(r.ret) # Size(icov.num)
    THEN Raise(ValueError("matmul: mismatch in its core dimension"))
    ELSE Return([num |-> Dot(VecMat(r.ret, icov.num), r.ret), den |-> icov.den])

(* an objective that subtracts the lepton term *)
_objective_function_minus_lepton(x, tag_icov, lep_icov, x_icov, tag_meas, lep_meas, x_meas, lep_mass) ==
    LET tag_side_chi_square == QuadForm(VecSub(Slice(x, 0, 4), tag_meas), tag_icov)
        lepton_chi_square == QuadForm(VecSub(Slice(x, 8, 11), lep_meas), lep_icov)
        x_system_chi_square == QuadForm(VecSub(Slice(x, 4, 8), x_meas), x_icov)
    IN  IF tag_side_chi_square.exc # NoException THEN tag_side_chi_square
        ELSE IF lepton_chi_square.exc # NoException THEN lepton_chi_square
        ELSE IF x_system_chi_square.exc # NoException THEN x_system_chi_square
        ELSE Return(RatAdd(RatAdd(tag_side_chi_square.ret,
                                  [num |-> 0 - lepton_chi_square.ret.num,
                                   den |-> lepton_chi_square.ret.den]),
                           x_system_chi_square.ret))

(* exc and ret: the statements run in order, so the first that raises decides *)
_objective_function(x, tag_icov, lep_icov, x_icov, tag_meas, lep_meas, x_meas, lep_mass) ==
    LET tag_side_four_momentum == Slice(x, 0, 4)
        x_system_four_momentum == Slice(x, 4, 8)
        lepton_three_momentum == Slice(x, 8, 11)
        tag_side_residuals == VecSub(tag_side_four_momentum, tag_meas)
        tag_side_chi_square == QuadForm(tag_side_residuals, tag_icov)
        lep_residuals == VecSub(lepton_three_momentum, lep_meas)
        lepton_chi_square == QuadForm(lep_residuals, lep_icov)
        x_system_residuals == VecSub(x_system_four_momentum, x_meas)
        x_system_chi_square == QuadForm(x_system_residuals, x_icov)
    IN  IF tag_side_chi_square.exc # NoException THEN tag_side_chi_square
        ELSE IF lepton_chi_square.exc # NoException THEN lepton_chi_square
        ELSE IF x_system_chi_square.exc # NoException THEN x_system_chi_square
        ELSE Return(RatAdd(RatAdd(tag_side_chi_square.ret, lepton_chi_square.ret),
                           x_system_chi_square.ret))

----------------------------------------------------------------------------
(* covariance.py.  An ndarray here is its shape and its entries in row-major
   order (flat); the matrix returned is an array of rows. *)

number_of_off_diagonal_values(dimension) == ((dimension * dimension) - dimension) \div 2

NdArray(shape, flat) == [shape |-> shape, flat |-> Arr(flat)]

(* np.triu_indices(dimension, k=1): the pairs (row, column) above the diagonal
   in row-major order, from pair (i, j) on *)
RECURSIVE triu_from(_, _, _)
triu_from(dimension, i, j) ==
    IF i >= dimension - 1 THEN <<>>
    ELSE IF j >= dimension THEN triu_from(dimension, i + 1, i + 2)
    ELSE <<[row |-> i, column |-> j]>> \o triu_from(dimension, i, j + 1)
triu_indices(dimension) == triu_from(dimension, 0, 1)

(* a create_symmetric_matrix that fills the upper triangle only *)
create_symmetric_matrix_upper_only(dimension, diag_values, off_diag_values) ==
    LET off_diag == triu_indices(dimension)
        m2 == [i \in 0..(dimension - 1) |-> [j \in 0..(dimension - 1) |->
                  IF i = j THEN diag_values.flat[i]
                  ELSE IF \E k \in DOMAIN off_diag : off_diag[k] = [row |-> i, column |-> j]
                  THEN off_diag_values.flat[
                           (CHOOSE k \in DOMAIN off_diag :
                               off_diag[k] = [row |-> i, column |-> j]) - 1]
                  ELSE 0]]
    IN  IF Len(diag_values.shape) # 1 \/ Len(off_diag_values.shape) # 1
        THEN Raise(ValueError("Shape of given matrix elements has to be 1-dimensional"))
        ELSE IF Size(diag_values.flat) # dimension
        THEN Raise(ValueError("Number of given diagonal values not compatible"))
        ELSE IF Size(off_diag_values.flat) # number_of_off_diagonal_values(dimension)
        THEN Raise(ValueError("Number of given off diagonal values not compatible"))
        ELSE Return(m2)

(* a create_symmetric_matrix that objects to the shapes only when neither
   array is 1-dimensional *)
create_symmetric_matrix_both_shapes(dimension, diag_values, off_diag_values) ==
    LET off_diag == triu_indices(dimension)
        At(i, j) == off_diag_values.flat[
                        (CHOOSE k \in DOMAIN off_diag :
                            off_diag[k] = [row |-> i, column |-> j]) - 1]
        m3 == [i \in 0..(dimension - 1) |-> [j \in 0..(dimension - 1) |->
                  IF i = j THEN diag_values.flat[i]
                  ELSE IF i < j THEN At(i, j) ELSE At(j, i)]]
    IN  IF Len(diag_values.shape) # 1 /\ Len(off_diag_values.shape) # 1
        THEN Raise(ValueError("Shape of given matrix elements has to be 1-dimensional"))
        ELSE IF Size(diag_values.flat) # dimension
        THEN Raise(ValueError("Number of given diagonal values not compatible"))
        ELSE IF Size(off_diag_values.flat) # number_of_off_diagonal_values(dimension)
        THEN Raise(ValueError("Number of given off diagonal values not compatible"))
        ELSE Return(m3)

create_symmetric_matrix(dimension, diag_values, off_diag_values) ==
    LET m == [i \in 0..(dimension - 1) |-> [j \in 0..(dimension - 1) |-> 0]]
        off_diag == triu_indices(dimension)
        (* m[row_diag, column_diag] = diag_values *)
        m1 == [i \in DOMAIN m |-> [j \in DOMAIN m |->
                  IF i = j THEN diag_values.flat[i] ELSE m[i][j]]]
        (* m[row_off_diag, column_off_diag] = off_diag_values *)
        m2 == [i \in DOMAIN m |-> [j \in DOMAIN m |->
                  IF \E k \in DOMAIN off_diag : off_diag[k] = [row |-> i, column |-> j]
                  THEN off_diag_values.flat[
                           (CHOOSE k \in DOMAIN off_diag :
                               off_diag[k] = [row |-> i, column |-> j]) - 1]
                  ELSE m1[i][j]]]
        (* m[column_off_diag, row_off_diag] = off_diag_values *)
        m3 == [i \in DOMAIN m |-> [j \in DOMAIN m |->
                  IF \E k \in DOMAIN off_diag : off_diag[k] = [row |-> j, column |-> i]
                  THEN off_diag_values.flat[
                           (CHOOSE k \in DOMAIN off_diag :
                               off_diag[k] = [row |-> j, column |-> i]) - 1]
                  ELSE m2[i][j]]]
    IN  IF Len(diag_values.shape) # 1 \/ Len(off_diag_values.shape) # 1
        THEN Raise(ValueError("Shape of given matrix elements has to be 1-dimensional"))
        ELSE IF Size(diag_values.flat) # dimension
        THEN Raise(ValueError("Number of given diagonal values not compatible"))
        ELSE IF Size(off_diag_values.flat) # number_of_off_diagonal_values(dimension)
        THEN Raise(ValueError("Number of given off diagonal values not compatible"))
        ELSE Return(m3)

(* A pandas DataFrame is its column labels and its rows of values. *)
DataFrame(columns, rows) == [columns |-> columns, values |-> Mat(rows)]

KeyError(msg) == [type |-> "KeyError", msg |-> msg]

(* df.loc[:, columns]: the named columns, in the order asked for, as an array
   of rows; a label the frame does not have is a KeyError *)
df_loc(df, columns) ==
    LET position(label) == CHOOSE i \in DOMAIN df.columns : df.columns[i] = label
    IN  IF \E k \in DOMAIN columns : \A i \in DOMAIN df.columns : df.columns[i] # columns[k]
        THEN Raise(KeyError("not in index"))
        ELSE Return([r \in DOMAIN df.values |->
                        [j \in 0..(Len(columns) - 1) |->
                            df.values[r][position(columns[j + 1]) - 1]]])

Transpose(m) == [j \in DOMAIN m[0] |-> [i \in DOMAIN m |-> m[i][j]]]

(* np.cov(m, rowvar=False), bias and ddof left at their defaults.  The rows of
   X are the variables and its columns the observations; a numpy before 2.0
   leaves a table of one row untransposed (transposes_single_row = FALSE), so
   that its entries are the observations of one variable.  With the mean
   S/n of n observations, (x - S/n)(y - T/n) is (n x - S)(n y - T) / n^2,
   and the sum is divided by fact = n - ddof = n - 1; with fact <= 0 numpy
   divides the zero sum by 0.0, which is nan.  The result is squeezed: one
   variable gives a 0-d array. *)
np_cov(m, transposes_single_row) ==
    LET X == IF Size(m) # 1 \/ transposes_single_row THEN Transpose(m) ELSE m
        n == Size(X[0])
        ddof == 1
        fact == n - ddof
        S(a) == Sum(X[a])
        c == [a \in DOMAIN X |-> [b \in DOMAIN X |->
                 IF fact <= 0 THEN nan
                 ELSE Num([num |-> Sum([r \in DOMAIN X[a] |->
                                       (n * X[a][r] - S(a)) * (n * X[b][r] - S(b))]),
                           den |-> n * n * fact])]]
    IN  IF Size(X) = 1 THEN c[0][0] ELSE c

get_gaussian_cov_matrix(df, four_momentum_columns, transposes_single_row) ==
    LET selected == df_loc(df, four_momentum_columns)
    IN  IF selected.exc # NoException THEN selected
        ELSE Return(np_cov(selected.ret, transposes_single_row))

----------------------------------------------------------------------------
(* settings.py.  A dict is the sequence of its <<key, value>> items in
   insertion order.  A call returns exc, ret, the dict after the call and the
   warnings it issued. *)

(* _kinfit_global_settings = {} when the module is imported *)
AtImport ==
    /\ _kinfit_global_settings = <<>>
    /\ warnings = <<>>
    /\ settings_log = <<>>

dict_contains(d, key) == \E i \in DOMAIN d : d[i][1] = key
dict_getitem(d, key) ==
    IF dict_contains(d, key)
    THEN Return(d[CHOOSE i \in DOMAIN d : d[i][1] = key][2])
    ELSE Raise(KeyError(key))
dict_setitem(d, key, value) ==
    IF dict_contains(d, key)
    THEN [i \in DOMAIN d |-> IF d[i][1] = key THEN <<key, value>> ELSE d[i]]
    ELSE Append(d, <<key, value>>)
dict_pop(d, key) == SelectSeq(d, LAMBDA item : item[1] # key)

(* warnings.warn(f"You're overwriting the following setting {key}: {old} -> {value}.",
   OverwritingSettingsWarning) *)
OverwritingSettingsWarning(key, old, value) ==
    [category |-> "OverwritingSettingsWarning", key |-> key, old |-> old, value |-> value]

(* a get_setting that takes the value out of the dict *)
get_setting_pop(settings, key) ==
    LET r == dict_getitem(settings, key)
    IN  IF r.exc # NoException
        THEN [exc |-> ValueError("No settings found for setting"), ret |-> None,
              settings |-> settings, warnings |-> <<>>]
        ELSE [exc |-> NoException, ret |-> r.ret,
              settings |-> dict_pop(settings, key), warnings |-> <<>>]

get_setting(settings, key) ==
    LET r == dict_getitem(settings, key)
    IN  IF r.exc # NoException
        THEN [exc |-> ValueError("No settings found for setting"), ret |-> None,
              settings |-> settings, warnings |-> <<>>]
        ELSE [exc |-> NoException, ret |-> r.ret,
              settings |-> settings, warnings |-> <<>>]

(* a set_setting that warns only when the value changes *)
set_setting_warn_on_change(settings, key, value) ==
    [exc |-> NoException, ret |-> None,
     settings |-> dict_setitem(settings, key, value),
     warnings |-> IF dict_contains(settings, key) /\ dict_getitem(settings, key).ret # value
                  THEN <<OverwritingSettingsWarning(key, dict_getitem(settings, key).ret, value)>>
                  ELSE <<>>]

set_setting(settings, key, value) ==
    [exc |-> NoException, ret |-> None,
     settings |-> dict_setitem(settings, key, value),
     warnings |-> IF dict_contains(settings, key)
                  THEN <<OverwritingSettingsWarning(key, dict_getitem(settings, key).ret, value)>>
                  ELSE <<>>]

----------------------------------------------------------------------------
(* chi2functions.py: Minimizer, SLSQPKinematicFitCostFunction *)

Minimizer_SCIPY_SLSQP == "scipy_slsqp"

(* SLSQPKinematicFitCostFunction.__init__: the default solver settings.
   A dict is the sequence of its items <<key, value>>, in insertion order;
   a value carries its Python type. *)
PyFloat(r) == [type |-> "float", repr |-> r]
PyInt(r) == [type |-> "int", repr |-> r]
PyBool(r) == [type |-> "bool", repr |-> r]
PyStr(r) == [type |-> "str", repr |-> r]

SLSQP__init__ ==
    << <<"ftol", PyFloat("1e-9")>>, <<"disp", PyBool("False")>>, <<"maxiter", PyInt("500")>> >>

valid_slsqp_settings ==
    [ftol |-> "float", eps |-> "float", disp |-> "bool", maxiter |-> "int"]

(* a loop that tests isinstance(setting, type): a bool is an instance of int *)
RECURSIVE settings_loop_isinstance(_, _)
settings_loop_isinstance(new_settings, k) ==
    IF k > Len(new_settings) THEN NoException
    ELSE LET slsqp_setting == new_settings[k][1]
             setting == new_settings[k][2]
         IN  IF slsqp_setting \notin DOMAIN valid_slsqp_settings
             THEN ValueError("Unknown SLSQP setting")
             ELSE IF /\ valid_slsqp_settings[slsqp_setting] # setting.type
                     /\ ~(valid_slsqp_settings[slsqp_setting] = "int" /\ setting.type = "bool")
             THEN ValueError("SLSQP setting has to be of type")
             ELSE settings_loop_isinstance(new_settings, k + 1)

(* the loop of the setter over new_settings.items(), from item k on: the
   exception of the first offending item *)
RECURSIVE settings_loop(_, _)
settings_loop(new_settings, k) ==
    IF k > Len(new_settings) THEN NoException
    ELSE LET slsqp_setting == new_settings[k][1]
             setting == new_settings[k][2]
         IN  IF slsqp_setting \notin DOMAIN valid_slsqp_settings
             THEN ValueError("Unknown SLSQP setting")
             ELSE IF valid_slsqp_settings[slsqp_setting] # setting.type
             THEN ValueError("SLSQP setting has to be of type")
             ELSE settings_loop(new_settings, k + 1)

(* a setter that merges an accepted mapping into the stored one (dict.update) *)
RECURSIVE dict_update(_, _, _)
dict_update(d, other, k) ==
    IF k > Len(other) THEN d
    ELSE dict_update(IF \E i \in DOMAIN d : d[i][1] = other[k][1]
                     THEN [i \in DOMAIN d |-> IF d[i][1] = other[k][1] THEN other[k] ELSE d[i]]
                     ELSE Append(d, other[k]),
                     other, k + 1)
scipy_slsqp_settings_setter_update(self, new_settings) ==
    LET e == settings_loop(new_settings, 1)
    IN  IF e # NoException
        THEN [exc |-> e, self |-> self]
        ELSE [exc |-> NoException,
              self |-> [self EXCEPT !.scipy_slsqp_settings =
                                        dict_update(self.scipy_slsqp_settings, new_settings, 1)]]

(* a setter that stores the mapping before it validates it *)
scipy_slsqp_settings_setter_store_first(self, new_settings) ==
    [exc |-> settings_loop(new_settings, 1),
     self |-> [self EXCEPT !.scipy_slsqp_settings = new_settings]]

(* scipy_slsqp_settings.setter: exc, and self after the call *)
scipy_slsqp_settings_setter(self, new_settings) ==
    LET e == settings_loop(new_settings, 1)
    IN  IF e # NoException
        THEN [exc |-> e, self |-> self]
        ELSE [exc |-> NoException,
              self |-> [self EXCEPT !.scipy_slsqp_settings = new_settings]]

----------------------------------------------------------------------------
(* chi2functions.py: DefaultKinematicFitCostFunction *)

n_free_params == 11
n_constrained_params == 3
n_fit_params == n_free_params + n_constrained_params

(* __init__; cls is the class constructed: DefaultKinematicFitCostFunction or a
   subclass of it, minimizer the value of its minimizer property;
   zero_pivot_after_rounding says of each of the three inversions what the
   installed LAPACK does where rounding decides (see linalg_inv) *)
Default__init__(cls, minimizer, tag_side_info, lepton_info, x_system_info, missing_mom_info, beam_four_momentum, zero_pivot_after_rounding) ==
    LET tag_inv == linalg_inv(tag_side_info.covariance_matrix, zero_pivot_after_rounding.tag_side)
        lep_inv == linalg_inv(lepton_info.covariance_matrix, zero_pivot_after_rounding.lepton)
        x_inv == linalg_inv(x_system_info.covariance_matrix, zero_pivot_after_rounding.x_system)
    IN  IF tag_inv.exc.type = "LinAlgError"
        THEN Raise(ValueError("Given Covariance not invertible"))
        ELSE IF lep_inv.exc # NoException THEN Raise(lep_inv.exc)
        ELSE IF x_inv.exc # NoException THEN Raise(x_inv.exc)
        ELSE Return([cls |-> cls,
                     minimizer |-> minimizer,
                     scipy_slsqp_settings |-> SLSQP__init__,
                     tag_side_measured_momentum |-> tag_side_info.four_momentum,
                     tag_side_cov |-> tag_side_info.covariance_matrix,
                     tag_side_inv_cov |-> tag_inv.ret,
                     lepton_measured_three_momentum |-> lepton_info.three_momentum,
                     lepton_mass |-> lepton_info.mass,
                     lepton_cov |-> lepton_info.covariance_matrix,
                     lepton_inv_cov |-> lep_inv.ret,
                     x_system_measured_momentum |-> x_system_info.four_momentum,
                     x_system_cov |-> x_system_info.covariance_matrix,
                     x_system_inv_cov |-> x_inv.ret,
                     neutrino_measured_three_momentum |-> missing_mom_info.three_momentum,
                     beam_four_momentum |-> beam_four_momentum])

(* an initial_params that lists the lepton before the X system *)
initial_params_lepton_first(self) ==
    LET params == Concat(Concat(Concat(self.tag_side_measured_momentum,
                                       self.lepton_measured_three_momentum),
                                self.x_system_measured_momentum),
                         self.neutrino_measured_three_momentum)
    IN  IF Size(params) # n_fit_params
        THEN Raise(ValueError("Number of initial parameters not compatible"))
        ELSE Return(params)

(* the initial_params property *)
initial_params(self) ==
    LET params == Concat(Concat(Concat(self.tag_side_measured_momentum,
                                       self.x_system_measured_momentum),
                                self.lepton_measured_three_momentum),
                         self.neutrino_measured_three_momentum)
    IN  IF Size(params) # n_fit_params
        THEN Raise(ValueError("Number of initial parameters not compatible"))
        ELSE Return(params)

(* a constraints property with the two mass-pinning entries left in *)
constraints_with_pinning(self) ==
    << [type |-> "eq", fun |-> "x_mom_cons"],
       [type |-> "eq", fun |-> "y_mom_cons"],
       [type |-> "eq", fun |-> "z_mom_cons"],
       [type |-> "eq", fun |-> "E_cons"],
       [type |-> "eq", fun |-> "eq_mass_cons"],
       [type |-> "eq", fun |-> "tag_mass_cons"],
       [type |-> "eq", fun |-> "sig_mass_cons"],
       [type |-> "ineq", fun |-> "x_mass_cons"] >>

(* the constraints property: the list handed to the solver *)
constraints(self) ==
    << [type |-> "eq", fun |-> "x_mom_cons"],
       [type |-> "eq", fun |-> "y_mom_cons"],
       [type |-> "eq", fun |-> "z_mom_cons"],
       [type |-> "eq", fun |-> "E_cons"],
       [type |-> "eq", fun |-> "eq_mass_cons"],
       [type |-> "ineq", fun |-> "x_mass_cons"] >>

(* the constraint methods, and the call of a constraint's "fun" *)
x_mom_cons(self, x) == _x_mom_function(x, self.beam_four_momentum)
y_mom_cons(self, x) == _y_mom_function(x, self.beam_four_momentum)
z_mom_cons(self, x) == _z_mom_function(x, self.beam_four_momentum)
E_cons(self, x) == _E_function(x, self.beam_four_momentum, self.lepton_mass)
eq_mass_cons(self, x) == _eq_mass_function(x, self.lepton_mass)
x_mass_cons(self, x) == _x_mass_function(x)

(* the value is a float: only eq_mass_cons can be nan *)
CallFun(self, fun, x) ==
    CASE fun = "x_mom_cons" -> Num(x_mom_cons(self, x))
      [] fun = "y_mom_cons" -> Num(y_mom_cons(self, x))
      [] fun = "z_mom_cons" -> Num(z_mom_cons(self, x))
      [] fun = "E_cons" -> Num(E_cons(self, x))
      [] fun = "eq_mass_cons" -> eq_mass_cons(self, x)
      [] fun = "x_mass_cons" -> Num(x_mass_cons(self, x))

(* __call__ *)
Default__call__(self, x) ==
    _objective_function(x, self.tag_side_inv_cov, self.lepton_inv_cov, self.x_system_inv_cov,
                        self.tag_side_measured_momentum, self.lepton_measured_three_momentum,
                        self.x_system_measured_momentum, self.lepton_mass)

----------------------------------------------------------------------------
(* chi2functions.py: minimize, minimize_with_slsqp.
   The solver is external: results[k] is what its k-th invocation returns,
   unless fun raises: SLSQP evaluates fun at x0 before it does anything else,
   and what fun raises there leaves scipy.optimize.minimize.
   A run records the solver's invocations (log) and the properties of the
   cost function it read (evaluated). *)

SolverResults == {[success |-> TRUE, status |-> 0], [success |-> FALSE, status |-> 9]}

(* a driver that invokes the solver again when it did not converge *)
minimize_with_slsqp_retry(cost_function, results) ==
    LET x0 == initial_params(cost_function)
        call(k) == [fun |-> cost_function.cls, x0 |-> x0.ret, method |-> "SLSQP",
                    constraints |-> constraints(cost_function),
                    options |-> cost_function.scipy_slsqp_settings,
                    result |-> results[k]]
        f0 == Default__call__(cost_function, x0.ret)
    IN  IF x0.exc # NoException
        THEN [exc |-> x0.exc, ret |-> None, log |-> <<>>,
              evaluated |-> <<"initial_params">>]
        ELSE IF f0.exc # NoException
        THEN [exc |-> f0.exc, ret |-> None, log |-> <<[call(1) EXCEPT !.result = None]>>,
              evaluated |-> <<"initial_params", "constraints", "scipy_slsqp_settings">>]
        ELSE IF results[1].success
        THEN [exc |-> NoException, ret |-> results[1], log |-> <<call(1)>>,
              evaluated |-> <<"initial_params", "constraints", "scipy_slsqp_settings">>]
        ELSE [exc |-> NoException, ret |-> results[2], log |-> <<call(1), call(2)>>,
              evaluated |-> <<"initial_params", "constraints", "scipy_slsqp_settings">>]

minimize_with_slsqp(cost_function, results) ==
    LET x0 == initial_params(cost_function)
        invocation == [fun |-> cost_function.cls,
                       x0 |-> x0.ret,
                       method |-> "SLSQP",
                       constraints |-> constraints(cost_function),
                       options |-> cost_function.scipy_slsqp_settings,
                       result |-> results[1]]
        (* fun(x0), the solver's first evaluation of the objective *)
        f0 == Default__call__(cost_function, x0.ret)
    IN  IF x0.exc # NoException
        THEN [exc |-> x0.exc, ret |-> None, log |-> <<>>,
              evaluated |-> <<"initial_params">>]
        ELSE IF f0.exc # NoException
        THEN [exc |-> f0.exc, ret |-> None,
              log |-> <<[invocation EXCEPT !.result = None]>>,
              evaluated |-> <<"initial_params", "constraints", "scipy_slsqp_settings">>]
        ELSE [exc |-> NoException,
              ret |-> results[1],
              log |-> <<invocation>>,
              evaluated |-> <<"initial_params", "constraints", "scipy_slsqp_settings">>]

(* a dispatch that falls back to SLSQP for a kind it does not know *)
minimize_fallback(cost_function, results) ==
    LET r == minimize_with_slsqp(cost_function, results)
    IN  [r EXCEPT !.evaluated = <<"minimizer">> \o @]

minimize(cost_function, results) ==
    IF cost_function.minimizer = Minimizer_SCIPY_SLSQP
    THEN LET r == minimize_with_slsqp(cost_function, results)
         IN  [r EXCEPT !.evaluated = <<"minimizer">> \o @]
    ELSE [exc |-> ValueError("Cost Function has unknown minimizer type"),
          ret |-> None, log |-> <<>>,
          evaluated |-> <<"minimizer", "minimizer">>]

----------------------------------------------------------------------------
(* The inputs of the cost function's life cycle *)

Cov4 == Mat(<< <<2, 1, 0, 0>>, <<1, 2, 0, 0>>, <<0, 0, 1, 0>>, <<0, 0, 0, 1>> >>)
Cov4Singular == Mat(<< <<1, 1, 0, 0>>, <<1, 1, 0, 0>>, <<0, 0, 1, 0>>, <<0, 0, 0, 1>> >>)
(* positive semi-definite of determinant 0, its elimination dividing by 3 *)
Cov4Degenerate == Mat(<< <<2, 1, -3, 0>>, <<1, 1, -2, 0>>, <<-3, -2, 5, 0>>, <<0, 0, 0, 1>> >>)
Cov3 == Mat(<< <<1, 0, 0>>, <<0, 2, 1>>, <<0, 1, 1>> >>)
Cov3Singular == Mat(<< <<1, 0, 0>>, <<0, 0, 0>>, <<0, 0, 1>> >>)

MassiveParticleKinematicInfo(covs, moms) ==
    {[covariance_matrix |-> c, four_momentum |-> p] : c \in covs, p \in moms}
MassConstrainedParticleKinematicInfo(covs, moms, masses) ==
    {[covariance_matrix |-> c, three_momentum |-> p, mass |-> m] :
        c \in covs, p \in moms, m \in masses}
MasslessParticleKinematicInfo(moms) == {[three_momentum |-> p] : p \in moms}

(* measured momenta; construction checks no size, so the sizes vary: the
   layout's (4, 3, 4, 3), sizes that do not total 14, sizes that total 14 with
   a momentum the objective cannot subtract (3 and 5 entries), and sizes that
   total 14 with a one-entry momentum, which numpy broadcasts *)
TagInfos == MassiveParticleKinematicInfo({Cov4, Cov4Singular, Cov4Degenerate},
                                         {Arr(<<1, 2, 3, 9>>), Arr(<<1, 2, 3>>)})
LeptonInfos == MassConstrainedParticleKinematicInfo({Cov3, Cov3Singular},
                                                    {Arr(<<7, 0, 2>>), Arr(<<7>>)}, {0})
XInfos == MassiveParticleKinematicInfo({Cov4, Cov4Singular},
                                       {Arr(<<4, 5, 6, 8>>), Arr(<<4, 5, 6, 8, 8>>)})
MissingMomInfos ==
    MasslessParticleKinematicInfo({Arr(<<-1, -2, -3>>), Arr(<<-1, -2, -3, 3>>),
                                   Arr(<<-1, -2, -3, 3, 3>>)})
Beams == {Arr(<<11, 5, 8, 30>>)}

(* the minimizer property of the class constructed: the library's class, or a
   subclass whose minimizer is no member of Minimizer *)
Classes ==
    {[cls |-> "DefaultKinematicFitCostFunction", minimizer |-> Minimizer_SCIPY_SLSQP],
     [cls |-> "OtherMinimizerCostFunction", minimizer |-> "other"]}

(* the mappings assigned to scipy_slsqp_settings: up to MaxItems items with
   distinct keys, bogus being no key of the schema *)
MaxItems == 2
Items ==
    {<<"ftol", PyFloat("1e-6")>>, <<"ftol", PyInt("1")>>,
     <<"eps", PyFloat("1e-8")>>, <<"eps", PyStr("small")>>,
     <<"disp", PyBool("True")>>, <<"disp", PyInt("1")>>,
     <<"maxiter", PyInt("100")>>, <<"maxiter", PyBool("True")>>,
     <<"bogus", PyInt("1")>>}
Keys(d) == {d[k][1] : k \in DOMAIN d}
Mappings ==
    UNION {{d \in [1..n -> Items] : Cardinality(Keys(d)) = n} : n \in 0..MaxItems}

----------------------------------------------------------------------------
(* The life cycle of a cost function: construction, assignments to
   scipy_slsqp_settings, reads of its properties, minimize *)

Init ==
    /\ cf = NoObject
    /\ op = "none"
    /\ arg = None
    /\ raised = NoException
    /\ returned = None
    /\ evaluated = <<>>
    /\ solver_log = <<>>
    /\ linalg_error_base \in LinAlgErrorBases
    /\ AtImport

(* construction is the first call: a constructor that raises ends the run *)
ConstructFrom(classes, tags, leptons, xs, nus, beams) ==
    /\ cf = NoObject
    /\ op = "none"
    /\ \E c \in classes, tag_side_info \in tags, lepton_info \in leptons,
          x_system_info \in xs, missing_mom_info \in nus, beam \in beams,
          zero_pivot_after_rounding \in [tag_side : BOOLEAN, lepton : BOOLEAN,
                                         x_system : BOOLEAN] :
          LET r == Default__init__(c.cls, c.minimizer, tag_side_info, lepton_info,
                                   x_system_info, missing_mom_info, beam,
                                   zero_pivot_after_rounding)
          IN  /\ op' = "__init__"
              /\ arg' = [cls |-> c.cls,
                         tag_side_info |-> tag_side_info, lepton_info |-> lepton_info,
                         x_system_info |-> x_system_info,
                         missing_mom_info |-> missing_mom_info,
                         beam_four_momentum |-> beam]
              /\ raised' = r.exc
              /\ returned' = r.ret
              /\ cf' = r.ret
    /\ evaluated' = <<>>
    /\ solver_log' = <<>>
    /\ UNCHANGED linalg_error_base
    /\ UNCHANGED settings_vars

Construct == ConstructFrom(Classes, TagInfos, LeptonInfos, XInfos, MissingMomInfos, Beams)

SetSettings ==
    /\ cf # NoObject
    /\ \E new_settings \in Mappings :
          LET r == scipy_slsqp_settings_setter(cf, new_settings)
          IN  /\ op' = "scipy_slsqp_settings.setter"
              /\ arg' = new_settings
              /\ raised' = r.exc
              /\ returned' = None
              /\ cf' = r.self
    /\ evaluated' = <<>>
    /\ solver_log' = <<>>
    /\ UNCHANGED linalg_error_base
    /\ UNCHANGED settings_vars

GetInitialParams ==
    /\ cf # NoObject
    /\ LET r == initial_params(cf)
       IN  /\ op' = "initial_params"
           /\ arg' = None
           /\ raised' = r.exc
           /\ returned' = r.ret
    /\ evaluated' = <<"initial_params">>
    /\ UNCHANGED <<cf, solver_log, linalg_error_base>>
    /\ UNCHANGED settings_vars

GetConstraints ==
    /\ cf # NoObject
    /\ op' = "constraints"
    /\ arg' = None
    /\ raised' = NoException
    /\ returned' = constraints(cf)
    /\ evaluated' = <<"constraints">>
    /\ UNCHANGED <<cf, solver_log, linalg_error_base>>
    /\ UNCHANGED settings_vars

Minimize ==
    /\ cf # NoObject
    /\ \E r1 \in SolverResults, r2 \in SolverResults :
          LET r == minimize(cf, <<r1, r2>>)
          IN  /\ op' = "minimize"
              /\ arg' = None
              /\ raised' = r.exc
              /\ returned' = r.ret
              /\ evaluated' = r.evaluated
              /\ solver_log' = r.log
    /\ UNCHANGED <<cf, linalg_error_base>>
    /\ UNCHANGED settings_vars

Next == Construct \/ GetInitialParams \/ GetConstraints \/ Minimize

Spec == Init /\ [][Next]_vars

----------------------------------------------------------------------------
(* The solver settings of one well-formed cost function: assignments to
   scipy_slsqp_settings, reads of it, minimize *)

WellFormed ==
    Default__init__("DefaultKinematicFitCostFunction", Minimizer_SCIPY_SLSQP,
                    [covariance_matrix |-> Cov4, four_momentum |-> Arr(<<1, 2, 3, 9>>)],
                    [covariance_matrix |-> Cov3, three_momentum |-> Arr(<<7, 0, 2>>), mass |-> 0],
                    [covariance_matrix |-> Cov4, four_momentum |-> Arr(<<4, 5, 6, 8>>)],
                    [three_momentum |-> Arr(<<-1, -2, -3>>)],
                    Arr(<<11, 5, 8, 30>>),
                    [tag_side |-> FALSE, lepton |-> FALSE, x_system |-> FALSE])

InitSettings ==
    /\ cf = WellFormed.ret
    /\ op = "__init__"
    /\ arg = None
    /\ raised = WellFormed.exc
    /\ returned = WellFormed.ret
    /\ evaluated = <<>>
    /\ solver_log = <<>>
    /\ linalg_error_base = "ValueError"   \* no call here raises LinAlgError
    /\ AtImport

GetSettings ==
    /\ cf # NoObject
    /\ op' = "scipy_slsqp_settings"
    /\ arg' = None
    /\ raised' = NoException
    /\ returned' = cf.scipy_slsqp_settings
    /\ evaluated' = <<"scipy_slsqp_settings">>
    /\ UNCHANGED <<cf, solver_log, linalg_error_base>>
    /\ UNCHANGED settings_vars

NextSettings == SetSettings \/ GetSettings \/ Minimize

SpecSettings == InitSettings /\ [][NextSettings]_vars

----------------------------------------------------------------------------
(* The chi square and the constraints at parameter vectors x.  An event is a
   true decay: truth is its parameter vector, beam the beam four-momentum.
   The measured momenta are the truth shifted by Noise; x is the truth with
   one entry moved by up to MaxDelta. *)

Events ==
    {[truth |-> Arr(<<0, 0, 0, 5, 0, 0, 0, 1, 0, 0, 2, 0, 0, -2>>),
      lepton_mass |-> 0, beam |-> Arr(<<0, 0, 0, 10>>)],
     [truth |-> Arr(<<3, 0, 0, 5, -3, 0, 0, 3, 0, 1, 0, 0, -1, 0>>),
      lepton_mass |-> 0, beam |-> Arr(<<0, 0, 0, 10>>)],
     [truth |-> Arr(<<0, 0, 0, 9, 0, 0, 0, 1, 3, 0, 0, -3, 0, 0>>),
      lepton_mass |-> 4, beam |-> Arr(<<0, 0, 0, 18>>)],
     [truth |-> Arr(<<2, 2, -3, 9, -1, -4, -2, 5, -2, -1, 2, 1, -2, 2>>),
      lepton_mass |-> 0, beam |-> Arr(<<0, -5, -1, 20>>)]}

Noise == Arr(<<1, 1, 0, 0, 0, 1, 1, 0, 0, 1, 1, 0, 0, 0>>)
Measured(e) == [i \in DOMAIN e.truth |-> e.truth[i] + Noise[i]]

Cov4Indefinite == Mat(<< <<1, 0, 0, 0>>, <<0, 1, 0, 0>>, <<0, 0, 1, 0>>, <<0, 0, 0, -1>> >>)
Cov3Negative == Mat(<< <<-1, 0, 0>>, <<0, -2, 1>>, <<0, 1, -1>> >>)

MaxDelta == 3

(* the radicands of x that np_sqrt meets are perfect squares or negative *)
IsSquare(v) == \E r \in 0..v : r * r = v
Representable(x, lepton_mass) ==
    /\ IsSquare(SumSq(x, 8, 11) + Sq(lepton_mass))
    /\ IsSquare(SumSq(x, 11, 14))
    /\ _tag_mass_sq(x) >= 0 => IsSquare(_tag_mass_sq(x))
    /\ _sig_mass_sq(x, lepton_mass) >= 0 => IsSquare(_sig_mass_sq(x, lepton_mass))

Vectors(e) ==
    {x \in {[e.truth EXCEPT ![i] = @ + d] : i \in 0..13, d \in (0 - MaxDelta)..MaxDelta} :
        Representable(x, e.lepton_mass)}

ConstructEvent ==
    \E e \in Events, tag_cov \in {Cov4, Cov4Indefinite}, lep_cov \in {Cov3, Cov3Negative},
       x_cov \in {Cov4, Cov4Indefinite} :
        ConstructFrom({[cls |-> "DefaultKinematicFitCostFunction",
                        minimizer |-> Minimizer_SCIPY_SLSQP]},
                      {[covariance_matrix |-> tag_cov,
                        four_momentum |-> Slice(Measured(e), 0, 4)]},
                      {[covariance_matrix |-> lep_cov,
                        three_momentum |-> Slice(Measured(e), 8, 11),
                        mass |-> e.lepton_mass]},
                      {[covariance_matrix |-> x_cov,
                        four_momentum |-> Slice(Measured(e), 4, 8)]},
                      {[three_momentum |-> Slice(Measured(e), 11, 14)]},
                      {e.beam})

(* the event a cost function was built from *)
EventOf(self) ==
    CHOOSE e \in Events :
        /\ e.beam = self.beam_four_momentum
        /\ e.lepton_mass = self.lepton_mass
        /\ Slice(Measured(e), 0, 4) = self.tag_side_measured_momentum
        /\ Slice(Measured(e), 8, 11) = self.lepton_measured_three_momentum

Call ==
    /\ cf # NoObject
    /\ \E x \in Vectors(EventOf(cf)) :
          LET r == Default__call__(cf, x)
          IN  /\ op' = "__call__"
              /\ arg' = x
              /\ raised' = r.exc
              /\ returned' = r.ret
    /\ evaluated' = <<>>
    /\ UNCHANGED <<cf, solver_log, linalg_error_base>>
    /\ UNCHANGED settings_vars

(* what the solver does with the constraints at x: calls each one's fun *)
EvalConstraints ==
    /\ cf # NoObject
    /\ \E x \in Vectors(EventOf(cf)) :
          /\ op' = "constraints(x)"
          /\ arg' = x
          /\ raised' = NoException
          /\ returned' = LET cons == constraints(cf)
                         IN  [k \in DOMAIN cons |->
                                 [type |-> cons[k].type, fun |-> cons[k].fun,
                                  value |-> CallFun(cf, cons[k].fun, x)]]
    /\ evaluated' = <<"constraints">>
    /\ UNCHANGED <<cf, solver_log, linalg_error_base>>
    /\ UNCHANGED settings_vars

NextEval == ConstructEvent \/ Call \/ EvalConstraints

SpecEval == Init /\ [][NextEval]_vars

----------------------------------------------------------------------------
(* create_symmetric_matrix on arrays of every shape and length around the
   ones a dimension up to MaxDim asks for *)

MaxDim == 4

(* n values from start on, going up or down, as a 1-d array or as one row of a
   2-d array *)
Ramp(n, start, step) == [k \in 1..n |-> start + step * (k - 1)]
Arrays(n, start) ==
    {NdArray(shape, Ramp(n, start, step)) : shape \in {<<n>>, <<1, n>>}, step \in {1, -1}}

(* np.array(v): a 0-d array, of one entry and no axis *)
Scalar(v) == NdArray(<<>>, <<v>>)

DiagArrays == UNION {Arrays(n, 1) : n \in 1..(MaxDim + 1)} \cup {Scalar(1)}
OffDiagArrays ==
    UNION {Arrays(n, 20) : n \in 0..(number_of_off_diagonal_values(MaxDim) + 1)}
        \cup {Scalar(20)}

InitSym ==
    /\ cf = NoObject
    /\ op = "none"
    /\ arg \in [dimension : 2..MaxDim, diag_values : DiagArrays,
                off_diag_values : OffDiagArrays]
    /\ raised = NoException
    /\ returned = None
    /\ evaluated = <<>>
    /\ solver_log = <<>>
    /\ linalg_error_base = "ValueError"   \* no call here raises LinAlgError
    /\ AtImport

CreateSymmetricMatrix ==
    /\ op = "none"
    /\ LET r == create_symmetric_matrix(arg.dimension, arg.diag_values, arg.off_diag_values)
       IN  /\ op' = "create_symmetric_matrix"
           /\ raised' = r.exc
           /\ returned' = r.ret
    /\ UNCHANGED <<cf, arg, evaluated, solver_log, linalg_error_base>>
    /\ UNCHANGED settings_vars

NextSym == CreateSymmetricMatrix

SpecSym == InitSym /\ [][NextSym]_vars

----------------------------------------------------------------------------
(* get_gaussian_cov_matrix on sample tables of up to MaxRows rows *)

MaxRows == 3

Columns == <<"px", "py", "pz">>
Rows == {<<0, 0, 1>>, <<1, 2, 1>>, <<2, 1, 0>>, <<3, 3, 5>>}
DataFrames == UNION {{DataFrame(Columns, rows) : rows \in [1..n -> Rows]} : n \in 1..MaxRows}
Selections == {<<"px", "py">>, <<"py", "px", "pz">>, <<"pz">>, <<"px", "E">>}

InitCov ==
    /\ cf = NoObject
    /\ op = "none"
    /\ arg \in [df : DataFrames, four_momentum_columns : Selections]
    /\ raised = NoException
    /\ returned = None
    /\ evaluated = <<>>
    /\ solver_log = <<>>
    /\ linalg_error_base = "ValueError"   \* no call here raises LinAlgError
    /\ AtImport

GetGaussianCovMatrix ==
    /\ op = "none"
    /\ \E transposes_single_row \in BOOLEAN :
          LET r == get_gaussian_cov_matrix(arg.df, arg.four_momentum_columns,
                                           transposes_single_row)
          IN  /\ op' = "get_gaussian_cov_matrix"
              /\ raised' = r.exc
              /\ returned' = r.ret
    /\ UNCHANGED <<cf, arg, evaluated, solver_log, linalg_error_base>>
    /\ UNCHANGED settings_vars

NextCov == GetGaussianCovMatrix

SpecCov == InitCov /\ [][NextCov]_vars

----------------------------------------------------------------------------
(* The global settings: up to MaxCalls calls of set_setting and get_setting *)

MaxCalls == 4

PyList(r) == [type |-> "list", repr |-> r]
SettingKeys == {"test", "not_set"}
SettingValues == {PyList("[1, 2, 3]"), PyInt("1")}

InitStore ==
    /\ cf = NoObject
    /\ op = "none"
    /\ arg = None
    /\ raised = NoException
    /\ returned = None
    /\ evaluated = <<>>
    /\ solver_log = <<>>
    /\ linalg_error_base = "ValueError"   \* no call here raises LinAlgError
    /\ AtImport

SetSetting ==
    /\ Len(settings_log) < MaxCalls
    /\ \E key \in SettingKeys, value \in SettingValues :
          LET r == set_setting(_kinfit_global_settings, key, value)
          IN  /\ op' = "set_setting"
              /\ arg' = [key |-> key, value |-> value]
              /\ raised' = r.exc
              /\ returned' = r.ret
              /\ _kinfit_global_settings' = r.settings
              /\ warnings' = r.warnings
              /\ settings_log' = Append(settings_log,
                                        [call |-> "set_setting", key |-> key, value |-> value])
    /\ UNCHANGED <<cf, evaluated, solver_log, linalg_error_base>>

GetSetting ==
    /\ Len(settings_log) < MaxCalls
    /\ \E key \in SettingKeys :
          LET r == get_setting(_kinfit_global_settings, key)
          IN  /\ op' = "get_setting"
              /\ arg' = [key |-> key]
              /\ raised' = r.exc
              /\ returned' = r.ret
              /\ _kinfit_global_settings' = r.settings
              /\ warnings' = r.warnings
              /\ settings_log' = Append(settings_log, [call |-> "get_setting", key |-> key])
    /\ UNCHANGED <<cf, evaluated, solver_log, linalg_error_base>>

NextStore == SetSetting \/ GetSetting

SpecStore == InitStore /\ [][NextStore]_vars

----------------------------------------------------------------------------
(* Properties *)

IsSingular(m) == Det(m) = 0
TotalSize(self) ==
    Size(self.tag_side_measured_momentum) + Size(self.x_system_measured_momentum)
        + Size(self.lepton_measured_three_momentum)
        + Size(self.neutrino_measured_three_momentum)

(* C1: constructing a DefaultKinematicFitCostFunction raises ValueError and
   produces no object whenever the tag-side, the lepton or the X-system
   covariance matrix is singular. *)
C1_SingularCovarianceIsValueError ==
    LET tag == IsSingular(arg.tag_side_info.covariance_matrix)
        lep == IsSingular(arg.lepton_info.covariance_matrix)
        xs == IsSingular(arg.x_system_info.covariance_matrix)
    IN  (op = "__init__"
            /\ (\/ (tag /\ ~lep /\ ~xs)
                \/ (~tag /\ lep /\ ~xs)
                \/ (~tag /\ ~lep /\ xs)))
        => (IsInstance(raised, "ValueError") /\ returned = None /\ cf = NoObject)

(* C2 as stated: for a recognised minimizer kind, one call to minimize invokes
   the solver exactly once and returns its result as is, without raising. *)
C2_RecognisedKindSolvesOnce ==
    (op = "minimize" /\ cf.minimizer = Minimizer_SCIPY_SLSQP)
    => /\ Len(solver_log) = 1
       /\ raised = NoException
       /\ returned = solver_log[1].result

(* the measured momenta have the sizes of the parameter layout *)
LayoutSizes(self) ==
    /\ Size(self.tag_side_measured_momentum) = 4
    /\ Size(self.x_system_measured_momentum) = 4
    /\ Size(self.lepton_measured_three_momentum) = 3
    /\ Size(self.neutrino_measured_three_momentum) = 3

(* the covariance matrices have the sizes of the parameter layout *)
LayoutCovariances(self) ==
    /\ Size(self.tag_side_cov) = 4 /\ \A i \in 0..3 : Size(self.tag_side_cov[i]) = 4
    /\ Size(self.x_system_cov) = 4 /\ \A i \in 0..3 : Size(self.x_system_cov[i]) = 4
    /\ Size(self.lepton_cov) = 3 /\ \A i \in 0..2 : Size(self.lepton_cov[i]) = 3

(* each momentum the objective subtracts from a slice of the parameters has
   the slice's number of entries, or one entry *)
SubtractsFromSlices(self) ==
    /\ Size(self.tag_side_measured_momentum) \in {4, 1}
    /\ Size(self.x_system_measured_momentum) \in {4, 1}
    /\ Size(self.lepton_measured_three_momentum) \in {3, 1}

(* C2, amended: for a recognised minimizer kind, one call to minimize never
   invokes the solver a second time: it invokes it once if the measured
   momenta total 14 entries and not at all otherwise, when it raises
   ValueError. A call that does not raise returns the one invocation's result
   as is, whether or not the result's success flag is set. With 4x4, 3x3 and
   4x4 covariance matrices and momenta that total 14, the call returns exactly
   when the tag-side, X-system and lepton momenta each have the layout's
   number of entries (4, 4, 3) or a single entry, so always for momenta of 4,
   4, 3 and 3 entries; otherwise it raises ValueError. *)
C2_SolvesAtMostOnce ==
    (op = "minimize" /\ cf.minimizer = Minimizer_SCIPY_SLSQP)
    => /\ Len(solver_log) <= 1
       /\ TotalSize(cf) # 14
             => (raised.type = "ValueError" /\ returned = None /\ solver_log = <<>>)
       /\ TotalSize(cf) = 14 => Len(solver_log) = 1
       /\ raised = NoException
             => (returned = solver_log[1].result /\ returned \in SolverResults)
       /\ (TotalSize(cf) = 14 /\ LayoutCovariances(cf))
             => IF SubtractsFromSlices(cf)
                THEN raised = NoException
                ELSE raised.type = "ValueError" /\ returned = None
       /\ (LayoutSizes(cf) /\ LayoutCovariances(cf)) => raised = NoException

C2_Witness ==
    /\ op = "minimize"
    /\ raised = NoException
    /\ Len(solver_log) = 1
    /\ returned.success = FALSE

(* C3: minimize on a cost function of an unrecognised minimizer kind raises
   ValueError; the solver is not invoked and neither initial_params nor
   constraints is read. *)
C3_UnknownKindIsValueError ==
    (op = "minimize" /\ cf.minimizer # Minimizer_SCIPY_SLSQP)
    => /\ raised.type = "ValueError"
       /\ returned = None
       /\ solver_log = <<>>
       /\ \A k \in DOMAIN evaluated : evaluated[k] \notin {"initial_params", "constraints"}

C3_Witness ==
    /\ op = "minimize"
    /\ cf.minimizer = "other"
    /\ raised.type = "ValueError"

(* the schema of the solver settings, as the specification states it *)
SchemaType(key) ==
    CASE key = "ftol" -> "float"
      [] key = "eps" -> "float"
      [] key = "disp" -> "bool"
      [] key = "maxiter" -> "int"
SchemaKeys == {"ftol", "eps", "disp", "maxiter"}
HasUnknownKey(d) == \E k \in DOMAIN d : d[k][1] \notin SchemaKeys
HasWrongType(d) ==
    \E k \in DOMAIN d : d[k][1] \in SchemaKeys /\ d[k][2].type # SchemaType(d[k][1])
SatisfiesSchema(d) ==
    \A k \in DOMAIN d : d[k][1] \in SchemaKeys /\ d[k][2].type = SchemaType(d[k][1])

(* C4: an assignment to scipy_slsqp_settings raises ValueError if the mapping
   has a key outside the schema or a schema key with a value of another type
   than the schema's, and is accepted if every item satisfies the schema. *)
C4_AssignmentValidatesSchema ==
    op = "scipy_slsqp_settings.setter"
    => /\ HasUnknownKey(arg) => raised.type = "ValueError"
       /\ HasWrongType(arg) => raised.type = "ValueError"
       /\ SatisfiesSchema(arg) => (raised = NoException /\ cf.scipy_slsqp_settings = arg)

C4_Witness ==
    /\ op = "scipy_slsqp_settings.setter"
    /\ Len(arg) = 2
    /\ arg[1][1] \in SchemaKeys /\ arg[1][2].type = SchemaType(arg[1][1])
    /\ arg[2][1] = "maxiter" /\ arg[2][2].type = "bool"
    /\ raised.type = "ValueError"

(* C5: the settings of the object, and the options every solver invocation is
   handed, hold only schema keys with values of the schema's types, after
   construction and after any assignments, accepted or rejected. *)
C5_SolverOptionsSatisfySchema ==
    /\ SatisfiesSchema(cf.scipy_slsqp_settings)
    /\ \A k \in DOMAIN solver_log :
          /\ SatisfiesSchema(solver_log[k].options)
          /\ solver_log[k].options = cf.scipy_slsqp_settings

C5_Witness ==
    /\ op = "minimize"
    /\ Len(solver_log) = 1
    /\ solver_log[1].options # SLSQP__init__
    /\ Len(solver_log[1].options) = 2

(* the entries [lo, hi) of a returned vector, an array of hi - lo entries *)
Entries(v, lo, hi) == [i \in 0..(hi - lo - 1) |-> v[lo + i]]

(* the layout of the parameter vector: tag-side four-momentum at [0:4),
   X-system four-momentum at [4:8), lepton three-momentum at [8:11),
   missing three-momentum at [11:14) *)
HasLayout(v, self) ==
    /\ DOMAIN v = 0..13
    /\ Entries(v, 0, 4) = self.tag_side_measured_momentum
    /\ Entries(v, 4, 8) = self.x_system_measured_momentum
    /\ Entries(v, 8, 11) = self.lepton_measured_three_momentum
    /\ Entries(v, 11, 14) = self.neutrino_measured_three_momentum

(* C6 as stated: initial_params raises ValueError if the measured momenta do
   not total 14 entries, and otherwise returns the 14 entries laid out as tag
   side at [0:4), X system at [4:8), lepton at [8:11) and missing momentum at
   [11:14), each the measured input of that particle. *)
C6_InitialParamsLayoutAsStated ==
    op = "initial_params"
    => IF TotalSize(cf) # 14
       THEN raised.type = "ValueError" /\ returned = None
       ELSE raised = NoException /\ HasLayout(returned, cf)

(* C6, amended: initial_params raises ValueError if the measured momenta do
   not total 14 entries; otherwise it returns exactly 14 entries, the entries
   of the tag side, the X system, the lepton and the missing momentum one
   after the other in this order, each copied from the measured input. These
   are the slices [0:4), [4:8), [8:11) and [11:14) exactly when the momenta
   have 4, 4, 3 and 3 entries. *)
C6_InitialParamsConcatenates ==
    op = "initial_params"
    => LET t == cf.tag_side_measured_momentum
           x == cf.x_system_measured_momentum
           l == cf.lepton_measured_three_momentum
           n == cf.neutrino_measured_three_momentum
       IN  IF TotalSize(cf) # 14
           THEN raised.type = "ValueError" /\ returned = None
           ELSE /\ raised = NoException
                /\ DOMAIN returned = 0..13
                /\ \A i \in DOMAIN t : returned[i] = t[i]
                /\ \A i \in DOMAIN x : returned[Size(t) + i] = x[i]
                /\ \A i \in DOMAIN l : returned[Size(t) + Size(x) + i] = l[i]
                /\ \A i \in DOMAIN n : returned[Size(t) + Size(x) + Size(l) + i] = n[i]
                /\ HasLayout(returned, cf) <=> LayoutSizes(cf)

C6_Witness ==
    /\ op = "initial_params"
    /\ raised = NoException
    /\ LayoutSizes(cf)
    /\ HasLayout(returned, cf)
    /\ returned[8] = cf.lepton_measured_three_momentum[0]

(* C7: the constraints property returns, and the solver is handed, the five
   equality constraints x, y, z momentum, energy and equal mass followed by
   the inequality constraint on the X-system mass squared; the two
   mass-pinning constraints are never in the list. *)
ActiveConstraints(cons) ==
    /\ Len(cons) = 6
    /\ [k \in 1..6 |-> cons[k].fun]
          = <<"x_mom_cons", "y_mom_cons", "z_mom_cons", "E_cons", "eq_mass_cons", "x_mass_cons">>
    /\ [k \in 1..6 |-> cons[k].type] = <<"eq", "eq", "eq", "eq", "eq", "ineq">>
    /\ \A k \in 1..6 : cons[k].fun \notin {"tag_mass_cons", "sig_mass_cons"}

C7_ConstraintListIsFixed ==
    /\ op = "constraints" => ActiveConstraints(returned)
    /\ \A k \in DOMAIN solver_log : ActiveConstraints(solver_log[k].constraints)

C7_Witness ==
    /\ op = "constraints"
    /\ Len(returned) = 6
    /\ returned[6].type = "ineq"

(* a symmetric matrix is positive-definite iff its leading minors are positive *)
LeadingMinor(m, k) == Det([i \in 0..(k - 1) |-> [j \in 0..(k - 1) |-> m[i][j]]])
IsSymmetric(m) == \A i \in DOMAIN m : \A j \in DOMAIN m : m[i][j] = m[j][i]
IsPositiveDefinite(m) == IsSymmetric(m) /\ \A k \in 1..Size(m) : LeadingMinor(m, k) > 0
(* inv, a matrix num over den, is the inverse of cov *)
IsInverse(cov, inv) ==
    /\ inv.den > 0
    /\ \A i \in DOMAIN cov : \A j \in DOMAIN cov :
          Sum([k \in DOMAIN cov |-> cov[i][k] * inv.num[k][j]]) = (IF i = j THEN inv.den ELSE 0)
(* the numerator of sum_i sum_j r[i] inv[i][j] r[j], r = x[lo : lo + n) - meas *)
FormNum(x, lo, meas, inv) ==
    Sum([i \in DOMAIN meas |->
            Sum([j \in DOMAIN meas |->
                    (x[lo + i] - meas[i]) * inv.num[i][j] * (x[lo + j] - meas[j])])])

ChiSquareIsSumOfForms(self, x, value) ==
    LET t == FormNum(x, 0, self.tag_side_measured_momentum, self.tag_side_inv_cov)
        l == FormNum(x, 8, self.lepton_measured_three_momentum, self.lepton_inv_cov)
        xs == FormNum(x, 4, self.x_system_measured_momentum, self.x_system_inv_cov)
        dt == self.tag_side_inv_cov.den
        dl == self.lepton_inv_cov.den
        dx == self.x_system_inv_cov.den
    IN  /\ IsInverse(self.tag_side_cov, self.tag_side_inv_cov)
        /\ IsInverse(self.lepton_cov, self.lepton_inv_cov)
        /\ IsInverse(self.x_system_cov, self.x_system_inv_cov)
        /\ value.den > 0
        /\ value.num * (dt * dl * dx) = value.den * (t * dl * dx + l * dt * dx + xs * dt * dl)

NeutrinoContributesNothing(self, x, value) ==
    \A i \in 11..13 : \A v \in -1..1 :
        LET other == Default__call__(self, [x EXCEPT ![i] = v]).ret
        IN  other.num * value.den = value.num * other.den

(* C8 as stated: for every cost function construction accepts and every x,
   the chi square is non-negative, is the sum of the three quadratic forms of
   the residuals with the inverse covariances, and does not depend on the
   neutrino entries. *)
C8_ChiSquareNonNegativeWhenAccepted ==
    op = "__call__"
    => /\ returned.num >= 0
       /\ ChiSquareIsSumOfForms(cf, arg, returned)
       /\ NeutrinoContributesNothing(cf, arg, returned)

(* C8, amended: the chi square is the sum of the three quadratic forms and
   does not depend on the neutrino entries; it is non-negative when the three
   covariance matrices are symmetric positive-definite. *)
C8_ChiSquareNonNegativeWhenPositiveDefinite ==
    op = "__call__"
    => /\ ChiSquareIsSumOfForms(cf, arg, returned)
       /\ NeutrinoContributesNothing(cf, arg, returned)
       /\ (/\ IsPositiveDefinite(cf.tag_side_cov)
           /\ IsPositiveDefinite(cf.lepton_cov)
           /\ IsPositiveDefinite(cf.x_system_cov)) => returned.num >= 0

C8_Witness ==
    /\ op = "__call__"
    /\ IsPositiveDefinite(cf.tag_side_cov)
    /\ IsPositiveDefinite(cf.lepton_cov)
    /\ IsPositiveDefinite(cf.x_system_cov)
    /\ returned.num > 0
    /\ arg[12] # cf.neutrino_measured_three_momentum[1]

(* x holds the true momenta of a decay of the beam: the lepton of mass
   lepton_mass and the massless neutrino are on their mass shells, the tag
   side and the signal side (X system, lepton and neutrino) are B mesons of
   one mass M, the X system has a real mass MX, and the four momenta add up
   to the beam's. *)
TrueEvent(x, beam, lepton_mass) ==
    \E El \in 0..beam[3] :
      /\ El * El = Sq(lepton_mass) + Sq(x[8]) + Sq(x[9]) + Sq(x[10])
      /\ \E En \in 0..beam[3] :
           /\ En * En = Sq(x[11]) + Sq(x[12]) + Sq(x[13])
           /\ \E M \in 0..beam[3] :
                /\ x[3] >= 0
                /\ Sq(x[3]) = Sq(M) + Sq(x[0]) + Sq(x[1]) + Sq(x[2])
                /\ Sq(x[7] + El + En)
                      = Sq(M) + Sq(x[4] + x[8] + x[11]) + Sq(x[5] + x[9] + x[12])
                              + Sq(x[6] + x[10] + x[13])
                /\ x[3] + x[7] + El + En = beam[3]
           /\ \E MX \in 0..beam[3] :
                /\ x[7] >= 0
                /\ Sq(x[7]) = Sq(MX) + Sq(x[4]) + Sq(x[5]) + Sq(x[6])
           /\ \A i \in 0..2 : x[i] + x[4 + i] + x[8 + i] + x[11 + i] = beam[i]

(* C9: at the true momenta of a decay of the beam, the five equality
   constraints of the active list (x, y, z momentum, energy, equal mass) are
   0 and the inequality constraint, the X-system mass squared, is >= 0. *)
C9_ConstraintsHoldAtTruth ==
    (op = "constraints(x)" /\ TrueEvent(arg, cf.beam_four_momentum, cf.lepton_mass))
    => /\ {returned[k].fun : k \in {k \in DOMAIN returned : returned[k].type = "eq"}}
             = {"x_mom_cons", "y_mom_cons", "z_mom_cons", "E_cons", "eq_mass_cons"}
       /\ {returned[k].fun : k \in {k \in DOMAIN returned : returned[k].type = "ineq"}}
             = {"x_mass_cons"}
       /\ \A k \in DOMAIN returned :
             /\ returned[k].type = "eq" => returned[k].value = Num(0)
             /\ returned[k].type = "ineq" =>
                   (returned[k].value # nan /\ returned[k].value[1] >= 0)

C9_Witness ==
    /\ op = "constraints(x)"
    /\ TrueEvent(arg, cf.beam_four_momentum, cf.lepton_mass)
    /\ arg[1] # 0
    /\ cf.beam_four_momentum[1] # 0

(* the place of the pair (i, j), i < j, among the pairs above the diagonal of
   an n x n matrix read row by row *)
RowMajorIndex(n, i, j) ==
    Cardinality({p \in (0..(n - 1)) \X (0..(n - 1)) :
                    p[1] < p[2] /\ (p[1] < i \/ (p[1] = i /\ p[2] < j))})

(* C10: for a dimension N >= 2, a 1-d array d of N entries and a 1-d array o
   of N(N-1)/2 entries, create_symmetric_matrix returns an N x N matrix M with
   M[i][i] = d[i], M[i][j] = M[j][i], and the entries above the diagonal equal
   to o read in row-major order. *)
C10_SymmetricMatrixLayout ==
    LET n == arg.dimension
        d == arg.diag_values
        o == arg.off_diag_values
    IN  (/\ op = "create_symmetric_matrix"
         /\ n >= 2
         /\ Len(d.shape) = 1 /\ Len(o.shape) = 1
         /\ d.shape[1] = n /\ 2 * o.shape[1] = n * (n - 1))
        => /\ raised = NoException
           /\ DOMAIN returned = 0..(n - 1)
           /\ \A i \in 0..(n - 1) :
                 /\ DOMAIN returned[i] = 0..(n - 1)
                 /\ returned[i][i] = d.flat[i]
                 /\ \A j \in 0..(n - 1) :
                       /\ returned[i][j] = returned[j][i]
                       /\ i < j => returned[i][j] = o.flat[RowMajorIndex(n, i, j)]

C10_Witness ==
    /\ op = "create_symmetric_matrix"
    /\ raised = NoException
    /\ arg.dimension = 4
    /\ returned[1][2] = arg.off_diag_values.flat[3]
    /\ returned[3][0] = arg.off_diag_values.flat[2]

(* the four faults of a call create_symmetric_matrix(N, d, o); the length of
   an array is the number of its entries *)
DiagNotOneDimensional == Len(arg.diag_values.shape) # 1
OffDiagNotOneDimensional == Len(arg.off_diag_values.shape) # 1
DiagLengthDiffers == Size(arg.diag_values.flat) # arg.dimension
OffDiagLengthDiffers ==
    2 * Size(arg.off_diag_values.flat) # arg.dimension * arg.dimension - arg.dimension
Faults ==
    {f \in {"d_shape", "o_shape", "d_length", "o_length"} :
        \/ f = "d_shape" /\ DiagNotOneDimensional
        \/ f = "o_shape" /\ OffDiagNotOneDimensional
        \/ f = "d_length" /\ DiagLengthDiffers
        \/ f = "o_length" /\ OffDiagLengthDiffers}

(* C11: create_symmetric_matrix(N, d, o) raises ValueError and returns no
   matrix whenever d is not 1-dimensional, o is not 1-dimensional, d has not N
   entries or o has not (N*N - N)/2 entries (1, 3, 6 for N = 2, 3, 4); one
   fault alone is enough. *)
C11_MalformedInputIsValueError ==
    /\ number_of_off_diagonal_values(2) = 1
    /\ number_of_off_diagonal_values(3) = 3
    /\ number_of_off_diagonal_values(4) = 6
    /\ (op = "create_symmetric_matrix" /\ Faults # {})
        => /\ IsInstance(raised, "ValueError")
           /\ returned = None

(* a call with a 2-d diagonal of N entries and nothing else wrong *)
C11_Witness ==
    /\ op = "create_symmetric_matrix"
    /\ Faults = {"d_shape"}
    /\ arg.dimension = 3
    /\ raised.type = "ValueError"
    /\ returned = None

(* the selected column a (0-based) of the sample table, its entry in row r *)
Sample(r, a) ==
    arg.df.values[r][(CHOOSE i \in DOMAIN arg.df.columns :
                         arg.df.columns[i] = arg.four_momentum_columns[a + 1]) - 1]
SelectionExists ==
    \A k \in DOMAIN arg.four_momentum_columns :
        \E i \in DOMAIN arg.df.columns : arg.df.columns[i] = arg.four_momentum_columns[k]
(* n^2 times the sum over the n rows of (x_a - mean_a)(x_b - mean_b) *)
CoMoment(a, b) ==
    LET n == Size(arg.df.values)
        Total(c) == Sum([r \in DOMAIN arg.df.values |-> Sample(r, c)])
    IN  Sum([r \in DOMAIN arg.df.values |->
                (n * Sample(r, a) - Total(a)) * (n * Sample(r, b) - Total(b))])
(* the entry e of the result is the rational p / q *)
EntryIs(e, p, q) == e # nan /\ e[1].num * q = p * e[1].den

(* C12: get_gaussian_cov_matrix returns the population covariance of the
   selected columns: for a table of n rows, entry (a, b) is the sum over the
   rows of (x_a - mean_a)(x_b - mean_b) divided by n. *)
C12_CovarianceIsPopulation ==
    LET n == Size(arg.df.values)
        k == Len(arg.four_momentum_columns)
    IN  (op = "get_gaussian_cov_matrix" /\ SelectionExists)
        => /\ raised = NoException
           /\ DOMAIN returned = 0..(k - 1)
           /\ \A a \in 0..(k - 1) :
                 /\ DOMAIN returned[a] = 0..(k - 1)
                 /\ \A b \in 0..(k - 1) :
                       EntryIs(returned[a][b], CoMoment(a, b), n * n * n)

(* the calls set_setting(key, ...) made so far, by their place in the log *)
SetsOf(key) ==
    {i \in DOMAIN settings_log :
        settings_log[i].call = "set_setting" /\ settings_log[i].key = key}
Latest(S) == CHOOSE i \in S : \A j \in S : j <= i
(* the dict holds value under key, once *)
Holds(d, key, value) ==
    /\ \E i \in DOMAIN d : d[i] = <<key, value>>
    /\ Cardinality({i \in DOMAIN d : d[i][1] = key}) = 1

(* C13: after any calls of set_setting and get_setting, get_setting(key)
   returns the value of the most recent set_setting(key, ...) and raises
   ValueError if there was none; get_setting leaves the store as it is and
   set_setting(key, ...) leaves the values of the other keys as they are: the
   store holds, for every key, the value of its most recent set_setting and
   nothing for a key never set. *)
C13_GetReturnsMostRecentSet ==
    /\ \A key \in SettingKeys :
          IF SetsOf(key) = {}
          THEN \A i \in DOMAIN _kinfit_global_settings :
                  _kinfit_global_settings[i][1] # key
          ELSE Holds(_kinfit_global_settings, key, settings_log[Latest(SetsOf(key))].value)
    /\ \A i \in DOMAIN _kinfit_global_settings :
          _kinfit_global_settings[i][1] \in SettingKeys
    /\ op = "get_setting"
        => IF SetsOf(arg.key) = {}
           THEN IsInstance(raised, "ValueError") /\ returned = None
           ELSE /\ raised = NoException
                /\ returned = settings_log[Latest(SetsOf(arg.key))].value

(* a key set twice to different values, the other key set, then read *)
C13_Witness ==
    /\ op = "get_setting"
    /\ raised = NoException
    /\ Len(_kinfit_global_settings) = 2
    /\ \E i \in SetsOf(arg.key) :
          /\ i < Latest(SetsOf(arg.key))
          /\ settings_log[i].value # returned

(* C14: set_setting(key, value) issues an OverwritingSettingsWarning exactly
   when the store has the key when the call is made, also when the value is
   the one it has already, and no warning when the key is new; either way the
   call returns and the store holds value under key. *)
C14_WarnsExactlyWhenOverwriting ==
    [][(op' = "set_setting" /\ settings_log' # settings_log)
       => /\ raised' = NoException
          /\ Holds(_kinfit_global_settings', arg'.key, arg'.value)
          /\ IF \E i \in DOMAIN _kinfit_global_settings :
                     _kinfit_global_settings[i][1] = arg'.key
             THEN /\ Len(warnings') = 1
                  /\ warnings'[1].category = "OverwritingSettingsWarning"
             ELSE warnings' = <<>>]_vars

(* a key set again to the value it has *)
C14_Witness ==
    /\ op = "set_setting"
    /\ raised = NoException
    /\ Len(warnings) = 1
    /\ warnings[1].old = arg.value
    /\ Holds(_kinfit_global_settings, arg.key, arg.value)

(* C15: an assignment to scipy_slsqp_settings that is rejected, also one whose
   first items are valid, leaves the stored settings as they were; one that is
   accepted makes the stored settings exactly the mapping assigned, so that a
   key stored before and absent from it (a default such as ftol, disp,
   maxiter) is gone. *)
C15_AssignmentIsAllOrNothing ==
    [][op' = "scipy_slsqp_settings.setter"
       => IF raised' # NoException
          THEN cf'.scipy_slsqp_settings = cf.scipy_slsqp_settings
          ELSE cf'.scipy_slsqp_settings = arg']_vars

(* an accepted one-item mapping without the defaults, then a rejected mapping
   whose first item is valid *)
C15_Witness ==
    /\ op = "scipy_slsqp_settings.setter"
    /\ raised.type = "ValueError"
    /\ Len(arg) = 2
    /\ arg[1][1] \in SchemaKeys /\ arg[1][2].type = SchemaType(arg[1][1])
    /\ Len(cf.scipy_slsqp_settings) = 1
    /\ cf.scipy_slsqp_settings[1][1] = "eps"

====
